---- MODULE Spec2Model ----
(***************************************************************************)
(* Model of the speech-to-subtitles command line tool:                     *)
(*   output.py          format_timestamp_srt, write_srt                    *)
(*   utils.py           check_ffmpeg, is_audio_only, get_output_format     *)
(*   video.py           draw_subtitle, process_video, _merge_audio         *)
(*   speech_to_text.py  main                                               *)
(*                                                                         *)
(* Text is a sequence of one-character strings.  A time in seconds is an   *)
(* integer number of ticks, Scale ticks to the second, so every time of    *)
(* the model is an exact multiple of 1/Scale s (binary floating point      *)
(* rounding of the Python floats is not modelled).                         *)
(***************************************************************************)
EXTENDS Integers, Sequences, FiniteSets, TLC

VARIABLES
    pc,         \* position of main / process_video / _merge_audio
    args,       \* parsed command line: input_file, output, no_show, compress
    env,        \* ffmpeg on PATH, input file exists, DISPLAY set
    loaded,     \* whisper.load_model has been called
    segments,   \* result["segments"] once model.transcribe has returned
    video,      \* what cv2.VideoCapture reports for the input
    res,        \* cap / out / window: "none", "open", "released"
    loop,       \* frame loop locals: frame_idx, pulled, total_frames, ended
    frame,      \* the frame last handed to the sinks
    sink,       \* one entry per frame handed to the sinks
    fs,         \* the files the run has written: path, kind, content
    stdout,     \* the reports printed so far, in order
    merge,      \* what the ffmpeg remux did
    exit_code,  \* process exit status, -1 while running
    unit        \* a direct call of one function: its input and its result

vars == <<pc, args, env, loaded, segments, video, res, loop, frame, sink,
          fs, stdout, merge, exit_code, unit>>

mainVars == <<pc, args, env, loaded, segments, video, res, loop, frame, sink,
              fs, stdout, merge, exit_code>>

----------------------------------------------------------------------------
(* Bounds of the model *)

\* longest segment list the generated inputs hold
MaxSegs == 2
\* generated segment times are 0 .. MaxTime half seconds
MaxTime == 3
\* frames a generated video holds at most
MaxFrames == 3
\* frames of the 3 s clip of the end-to-end scenario
ClipFrames == 90
\* width and height of the frames of a generated video
FrameW == 4
FrameH == 40
\* width in pixels one glyph advances the pen (Hershey glyphs abstracted)
CharAdvance == 3

\* ticks per second
Scale == 2 * 1000
Half == Scale \div 2

----------------------------------------------------------------------------
(* Python's str, int and format primitives *)

IsSpace(c) == c \in {" ", "\n", "\t", "\r"}

RECURSIVE lstrip(_)
lstrip(s) == IF s # <<>> /\ IsSpace(Head(s)) THEN lstrip(Tail(s)) ELSE s

RECURSIVE rstrip(_)
rstrip(s) ==
    IF s # <<>> /\ IsSpace(s[Len(s)]) THEN rstrip(SubSeq(s, 1, Len(s) - 1)) ELSE s

\* str.strip()
strip(s) == rstrip(lstrip(s))

LowerChar(c) ==
    CASE c = "S" -> "s" [] c = "R" -> "r" [] c = "T" -> "t" [] c = "X" -> "x"
      [] c = "M" -> "m" [] c = "P" -> "p" [] c = "O" -> "o" [] c = "A" -> "a"
      [] OTHER -> c

\* str.lower()
lower(s) == [i \in 1..Len(s) |-> LowerChar(s[i])]

\* str.endswith(suffix)
endswith(s, suffix) ==
    /\ Len(s) >= Len(suffix)
    /\ SubSeq(s, Len(s) - Len(suffix) + 1, Len(s)) = suffix

\* str.rfind(c): the 1-based position of the last c, 0 when there is none
rfind(s, c) ==
    IF \E i \in 1..Len(s) : s[i] = c
    THEN CHOOSE i \in 1..Len(s) : s[i] = c /\ \A j \in (i+1)..Len(s) : s[j] # c
    ELSE 0

\* int(n / d) for d > 0: truncation toward zero
IntTrunc(n, d) == IF n >= 0 THEN n \div d ELSE -((-n) \div d)

DigitChar(d) == <<"0", "1", "2", "3", "4", "5", "6", "7", "8", "9">>[d + 1]

RECURSIVE Decimal(_)
Decimal(n) ==
    IF n < 10 THEN <<DigitChar(n)>> ELSE Decimal(n \div 10) \o <<DigitChar(n % 10)>>

RECURSIVE ZeroFill(_, _)
ZeroFill(s, width) == IF Len(s) >= width THEN s ELSE ZeroFill(<<"0">> \o s, width)

\* format(n, "0<width>d"): sign first, zero filled to at least width characters
FormatD(n, width) ==
    IF n < 0 THEN <<"-">> \o ZeroFill(Decimal(-n), width - 1)
    ELSE ZeroFill(Decimal(n), width)

----------------------------------------------------------------------------
(* output.py *)

\* a faulty variant of the milliseconds field: rounded to the nearest millisecond
MillisRounded(ticks) ==
    IntTrunc((ticks - IntTrunc(ticks, Scale) * Scale) * 1000 + Half, Scale)

\* millis = int((seconds - int(seconds)) * 1000)
Millis(ticks) == IntTrunc((ticks - IntTrunc(ticks, Scale) * Scale) * 1000, Scale)

\* a faulty variant of the formatter: negative seconds are taken as 0
format_timestamp_srt_clamped(ticks) ==
    LET t       == IF ticks < 0 THEN 0 ELSE ticks
        hours   == t \div (3600 * Scale)
        minutes == (t % (3600 * Scale)) \div (60 * Scale)
        secs    == (t % (60 * Scale)) \div Scale
        millis  == Millis(t)
    IN  FormatD(hours, 2) \o <<":">> \o FormatD(minutes, 2) \o <<":">>
        \o FormatD(secs, 2) \o <<",">> \o FormatD(millis, 3)

\* format_timestamp_srt(seconds), seconds = ticks / Scale
format_timestamp_srt(ticks) ==
    LET hours   == ticks \div (3600 * Scale)
        minutes == (ticks % (3600 * Scale)) \div (60 * Scale)
        secs    == (ticks % (60 * Scale)) \div Scale
        millis  == Millis(ticks)
    IN  FormatD(hours, 2) \o <<":">> \o FormatD(minutes, 2) \o <<":">>
        \o FormatD(secs, 2) \o <<",">> \o FormatD(millis, 3)

Arrow == <<" ", "-", "-", ">", " ">>

\* a faulty variant of the record: numbered from 0
SrtRecordZeroBased(i, seg) ==
    Decimal(i - 1) \o <<"\n">>
    \o format_timestamp_srt(seg.start) \o Arrow \o format_timestamp_srt(seg.end)
    \o <<"\n">> \o strip(seg.text) \o <<"\n", "\n">>

\* a faulty variant of the record: no blank line ends it
SrtRecordNoBlankLine(i, seg) ==
    Decimal(i) \o <<"\n">>
    \o format_timestamp_srt(seg.start) \o Arrow \o format_timestamp_srt(seg.end)
    \o <<"\n">> \o strip(seg.text) \o <<"\n">>

\* the text write_srt writes for the i-th segment
SrtRecord(i, seg) ==
    Decimal(i) \o <<"\n">>
    \o format_timestamp_srt(seg.start) \o Arrow \o format_timestamp_srt(seg.end)
    \o <<"\n">> \o strip(seg.text) \o <<"\n", "\n">>

RECURSIVE SrtFrom(_, _)
SrtFrom(segs, i) ==
    IF i > Len(segs) THEN <<>> ELSE SrtRecord(i, segs[i]) \o SrtFrom(segs, i + 1)

\* the content of the file write_srt(segments, output_path) leaves
write_srt(segs) == SrtFrom(segs, 1)

----------------------------------------------------------------------------
(* Structural reading of an SRT text: records separated by a blank line,  *)
(* each an index line, a time-range line and the text lines.              *)

RECURSIVE SplitLines(_, _)
SplitLines(content, line) ==
    IF content = <<>> THEN <<line>>
    ELSE IF Head(content) = "\n" THEN <<line>> \o SplitLines(Tail(content), <<>>)
    ELSE SplitLines(Tail(content), Append(line, Head(content)))

RECURSIVE JoinLines(_)
JoinLines(lines) ==
    IF lines = <<>> THEN <<>>
    ELSE IF Len(lines) = 1 THEN lines[1]
    ELSE lines[1] \o <<"\n">> \o JoinLines(Tail(lines))

\* the first blank line at or after position i, Len(lines) + 1 when none
BlankFrom(lines, i) ==
    IF \E j \in i..Len(lines) : lines[j] = <<>>
    THEN CHOOSE j \in i..Len(lines) :
             lines[j] = <<>> /\ \A k \in i..(j - 1) : lines[k] # <<>>
    ELSE Len(lines) + 1

RECURSIVE ParseFrom(_, _)
ParseFrom(lines, i) ==
    IF i > Len(lines) THEN <<>>
    ELSE IF lines[i] = <<>> THEN ParseFrom(lines, i + 1)
    ELSE LET j == BlankFrom(lines, i + 2)
         IN  <<[index |-> lines[i],
                times |-> IF i + 1 <= Len(lines) THEN lines[i + 1] ELSE <<>>,
                text  |-> JoinLines(SubSeq(lines, i + 2, j - 1))]>>
             \o ParseFrom(lines, j + 1)

parse_srt(content) == ParseFrom(SplitLines(content, <<>>), 1)

----------------------------------------------------------------------------
(* video.py: the active subtitle of a frame *)

\* seg["start"] <= current_timestamp <= seg["end"], the timestamp being ts.n / ts.d
Contains(seg, ts) == seg.start * ts.d <= ts.n * Scale /\ ts.n * Scale <= seg.end * ts.d

RECURSIVE ScanFrom(_, _, _)
ScanFrom(segs, i, ts) ==
    IF i > Len(segs) THEN <<>>
    ELSE IF Contains(segs[i], ts) THEN strip(segs[i].text)
    ELSE ScanFrom(segs, i + 1, ts)

\* a faulty variant of the scan: no break, the last containing segment wins
RECURSIVE ScanLast(_, _, _)
ScanLast(segs, i, ts) ==
    IF i < 1 THEN <<>>
    ELSE IF Contains(segs[i], ts) THEN strip(segs[i].text)
    ELSE ScanLast(segs, i - 1, ts)

active_text_last(segs, ts) == ScanLast(segs, Len(segs), ts)

\* current_text after the for loop over the segments
active_text(segs, ts) == ScanFrom(segs, 1, ts)

----------------------------------------------------------------------------
(* video.py: draw_subtitle.  A frame is [w, h, px], px a colour for every *)
(* pixel <<x, y>>, 0 <= x < w, 0 <= y < h, row 0 at the top.              *)

thickness == 2
BottomMargin == 50
BoxPad == 10
\* cv2.getTextSize for FONT_HERSHEY_SIMPLEX (cap line 12, base line 9) at
\* font_scale 0.8: height cvRound(21 * 0.8 + (thickness + 1) / 2), base line
\* cvRound(9 * 0.8 + thickness * 0.5)
text_h == (21 * 8 + ((thickness + 1) \div 2) * 10 + 5) \div 10
baseline == (9 * 8 + thickness * 5 + 5) \div 10
\* width cvRound(view_x + thickness), view_x the sum of the glyph advances
text_w(text) == CharAdvance * Len(text) + thickness

Pixels(w, h) == (0..(w - 1)) \X (0..(h - 1))

UniformFrame(w, h, colour) == [w |-> w, h |-> h, px |-> [p \in Pixels(w, h) |-> colour]]

\* cv2.rectangle(frame, pt1, pt2, colour, -1): both corners included, clipped
InBox(p, x1, y1, x2, y2) == x1 <= p[1] /\ p[1] <= x2 /\ y1 <= p[2] /\ p[2] <= y2

\* cv2.putText: the strokes of the glyphs, abstracted to the pen's path on
\* the base line of the text; no glyph, no stroke
InGlyphs(p, x, y, text) == p[2] = y /\ x <= p[1] /\ p[1] < x + CharAdvance * Len(text)

draw_subtitle(f, text) ==
    LET x == (f.w - text_w(text)) \div 2
        y == f.h - BottomMargin
    IN  [f EXCEPT !.px = [p \in DOMAIN f.px |->
            IF InGlyphs(p, x, y, text) THEN "white"
            ELSE IF InBox(p, x - BoxPad, y - text_h - BoxPad,
                          x + text_w(text) + BoxPad, y + baseline + BoxPad)
                 THEN "black"
                 ELSE f.px[p]]]

\* a faulty variant of the caller: draw_subtitle is called whatever the text
overlay_unguarded(f, current_text) == draw_subtitle(f, current_text)

\* process_video: "if current_text: frame = draw_subtitle(frame, current_text)"
overlay(f, current_text) ==
    IF current_text # <<>> THEN draw_subtitle(f, current_text) ELSE f

----------------------------------------------------------------------------
(* Inputs *)

Seg(a, b, t) == [start |-> a, end |-> b, text |-> t]

TextA == <<"A">>
TextB == <<" ", "B", "\n">>
TextHi == <<" ", "H", "i", " ", "t", "h", "e", "r", "e", " ">>
TextHello == <<"H", "e", "l", "l", "o">>
TextTwoLines == <<"a", "\n", "b">>
TextBlankLine == <<"a", "\n", "\n", "b">>

\* [{0,2,"A"},{2,4,"B"}]: two segments sharing a boundary
SegsBoundary == <<Seg(0, 2 * Scale, TextA), Seg(2 * Scale, 4 * Scale, <<"B">>)>>
\* [{1.0,3.0,"Hello"}]
SegsHello == <<Seg(Scale, 3 * Scale, TextHello)>>
\* [{0.0,1.5," Hi there "}]
SegsHi == <<Seg(0, Scale + Half, TextHi)>>
\* overlapping segments, a malformed transcription
SegsOverlap == <<Seg(0, 3 * Scale, TextA), Seg(Scale, 2 * Scale, TextB)>>
SegsTwoLines == <<Seg(0, Scale, TextTwoLines), Seg(Scale, 2 * Scale, TextA)>>
SegsBlankLine == <<Seg(0, Scale, TextBlankLine), Seg(Scale, 2 * Scale, TextA)>>
SegsEmptyText == <<Seg(0, Scale, <<" ">>), Seg(Scale, 2 * Scale, TextA)>>

GenTimes == {k * Half : k \in 0..MaxTime}
GenSegs == {Seg(a, b, t) : a \in GenTimes, b \in GenTimes, t \in {TextA, TextB}}
GenOrdered(l) ==
    /\ \A i \in 1..Len(l) : l[i].start <= l[i].end
    /\ \A i \in 1..(Len(l) - 1) : l[i].start <= l[i + 1].start

\* every list of at most MaxSegs generated segments, in non-decreasing start order
GenSegLists ==
    UNION {{l \in [1..n -> GenSegs] : GenOrdered(l)} : n \in 0..MaxSegs}

ExampleSegLists ==
    {SegsBoundary, SegsHello, SegsHi, SegsOverlap, SegsTwoLines, SegsBlankLine,
     SegsEmptyText}

T(n, d) == [n |-> n, d |-> d]

\* query timestamps: half seconds, whole seconds, and frames at 30 fps
Queries ==
    {T(k, 2) : k \in 0..(MaxTime + 1)} \cup {T(2, 1), T(5, 1)}
    \cup {T(k, 30) : k \in {29, 30, 90, 91}}

\* seconds to format: every tick of the first two seconds, the ticks around
\* the minute, the hour and the hundredth hour, and negative seconds
FormatInputs ==
    (0..(2 * Scale))
    \cup {b * Scale + d : b \in {60, 3600, 3661, 86400, 360000}, d \in (0 - 20)..2500}
    \cup ((0 - 2 * Scale)..(0 - 1))
    \cup {0 - (b * Scale + d) : b \in {60, 3600, 3661}, d \in (0 - 20)..2500}

UnitFrames ==
    {UniformFrame(d[1], d[2], c) :
        d \in {<<FrameW, FrameH>>, <<FrameW, FrameH \div 2>>, <<8 * FrameW, 2 * FrameH>>},
        c \in {"grey", "black"}}

UnitTexts == {<<>>, TextA, <<"H", "i">>}

----------------------------------------------------------------------------
(* Direct calls of the functions, one call per behaviour *)

NoUnit ==
    [op |-> "none", segs |-> <<>>, ts |-> T(0, 1), ticks |-> 0, f |-> <<>>,
     text |-> <<>>, step |-> 0, out |-> <<>>, records |-> <<>>]

\* the inputs of the calls: unit is the call to make
UnitInputs ==
    \/ \E t \in FormatInputs : unit = [NoUnit EXCEPT !.op = "format", !.ticks = t]
    \/ \E l \in GenSegLists \cup ExampleSegLists, q \in Queries :
           unit = [NoUnit EXCEPT !.op = "resolve", !.segs = l, !.ts = q]
    \/ \E l \in GenSegLists \cup ExampleSegLists :
           unit = [NoUnit EXCEPT !.op = "srt", !.segs = l]
    \/ \E o \in {"draw", "overlay"}, f \in UnitFrames, t \in UnitTexts :
           unit = [NoUnit EXCEPT !.op = o, !.f = f, !.text = t]

FormatCall ==
    /\ unit.op = "format" /\ unit.step = 0
    /\ unit' = [unit EXCEPT !.out = format_timestamp_srt(unit.ticks), !.step = 1]
    /\ UNCHANGED mainVars

ResolveCall ==
    /\ unit.op = "resolve" /\ unit.step = 0
    /\ unit' = [unit EXCEPT !.out = active_text(unit.segs, unit.ts), !.step = 1]
    /\ UNCHANGED mainVars

WriteSrtCall ==
    /\ unit.op = "srt" /\ unit.step = 0
    /\ unit' = [unit EXCEPT !.out = write_srt(unit.segs), !.step = 1]
    /\ UNCHANGED mainVars

ParseSrtCall ==
    /\ unit.op = "srt" /\ unit.step = 1
    /\ unit' = [unit EXCEPT !.records = parse_srt(unit.out), !.step = 2]
    /\ UNCHANGED mainVars

DrawCall ==
    /\ unit.op = "draw" /\ unit.step = 0
    /\ unit' = [unit EXCEPT !.out = draw_subtitle(unit.f, unit.text), !.step = 1]
    /\ UNCHANGED mainVars

OverlayCall ==
    /\ unit.op = "overlay" /\ unit.step = 0
    /\ unit' = [unit EXCEPT !.out = overlay(unit.f, unit.text), !.step = 1]
    /\ UNCHANGED mainVars

----------------------------------------------------------------------------
(* utils.py *)

Ext_srt == <<".", "s", "r", "t">>
Ext_txt == <<".", "t", "x", "t">>

audio_extensions ==
    {<<".", "m", "p", "3">>, <<".", "w", "a", "v">>, <<".", "f", "l", "a", "c">>,
     <<".", "o", "g", "g">>, <<".", "m", "4", "a">>, <<".", "a", "a", "c">>,
     <<".", "w", "m", "a">>}

\* os.path.splitext(p): <<root, ext>>.  The extension starts at the last dot
\* of the last path component, unless only dots precede it in that component.
splitext(p) ==
    LET sepIndex == rfind(p, "/")
        dotIndex == rfind(p, ".")
    IN  IF dotIndex > sepIndex
           /\ \E k \in (sepIndex + 1)..(dotIndex - 1) : p[k] # "."
        THEN <<SubSeq(p, 1, dotIndex - 1), SubSeq(p, dotIndex, Len(p))>>
        ELSE <<p, <<>>>>

\* os.path.basename(p)
basename(p) == SubSeq(p, rfind(p, "/") + 1, Len(p))

is_audio_only(file_path) == lower(splitext(file_path)[2]) \in audio_extensions

\* a faulty variant of get_output_format: no raw token format
get_output_format_no_txt(output_path) ==
    IF output_path = <<>> THEN "None"
    ELSE IF lower(splitext(output_path)[2]) = Ext_srt THEN "srt"
    ELSE "video"

get_output_format(output_path) ==
    IF output_path = <<>> THEN "None"
    ELSE LET ext == lower(splitext(output_path)[2])
         IN  IF ext = Ext_srt THEN "srt"
             ELSE IF ext = Ext_txt THEN "txt"
             ELSE "video"

----------------------------------------------------------------------------
(* Inputs of a run *)

InputFiles == {<<"v", ".", "m", "p", "4">>, <<"a", ".", "m", "p", "3">>,
               <<"A", ".", "M", "P", "3">>}

\* no -o, o.srt, o.SRT, .srt, o.txt, o.mp4, o.tar.mkv
OutputPaths ==
    {<<>>, <<"o", ".", "s", "r", "t">>, <<"o", ".", "S", "R", "T">>,
     <<".", "s", "r", "t">>, <<"o", ".", "t", "x", "t">>,
     <<"o", ".", "m", "p", "4">>, <<"o", ".", "t", "a", "r", ".", "m", "k", "v">>}

Video(fps, n, total, opened, writer_ok) ==
    [fps |-> fps, nframes |-> n, total |-> total, opened |-> opened,
     writer_ok |-> writer_ok, w |-> FrameW, h |-> FrameH]

NoVideo == Video(1, 0, 0, FALSE, FALSE)

\* the 3 s clip at 30 fps of the end-to-end scenario
ClipVideo == Video(30, ClipFrames, ClipFrames, TRUE, TRUE)

\* what cv2 can report for an input: the frames it really delivers, the frame
\* count of the container (0 when it is unknown), whether the capture and the
\* writer opened
Videos ==
    {Video(fps, n, IF known THEN n ELSE 0, TRUE, wok) :
        fps \in {1, 2}, n \in 0..MaxFrames, known \in BOOLEAN, wok \in BOOLEAN}
    \cup {ClipVideo, NoVideo}

MainSegLists == ExampleSegLists \cup {<<>>}

\* how the ffmpeg remux ends: exit 0; exit 0 but os.remove fails; non-zero
\* exit with a stderr that decodes as UTF-8; non-zero exit with a stderr that
\* does not; ffmpeg could not be started
MergeOutcomes == {"ok", "remove_fails", "nonzero", "nonzero_undecodable", "oserror"}

----------------------------------------------------------------------------
(* speech_to_text.py: main *)

Say(msgs) == stdout' = stdout \o msgs

InitMain ==
    /\ pc = "check_ffmpeg"
    /\ args \in [input_file : InputFiles, output : OutputPaths,
                 no_show : BOOLEAN, compress : BOOLEAN]
    /\ env \in [ffmpeg : BOOLEAN, input_exists : BOOLEAN, headless : BOOLEAN]
    /\ loaded = "none"
    /\ segments = <<>>
    /\ video = NoVideo
    /\ res = [cap |-> "none", out |-> "none", window |-> "none"]
    /\ loop = [frame_idx |-> 0, pulled |-> 0, total_frames |-> 0, ended |-> "",
               temp |-> <<>>, progress |-> <<>>]
    /\ frame = <<>>
    /\ sink = <<>>
    /\ fs = <<>>
    /\ stdout = <<>>
    /\ merge = [calls |-> 0, codec |-> "", outcome |-> ""]
    /\ exit_code = -1
    /\ unit = NoUnit

\* a faulty variant of check_ffmpeg: the missing tool is reported, the run goes on
check_ffmpeg_warn_only ==
    /\ pc = "check_ffmpeg"
    /\ pc' = "validate"
    /\ IF env.ffmpeg THEN UNCHANGED stdout ELSE Say(<<"ffmpeg missing">>)
    /\ UNCHANGED <<args, env, loaded, segments, video, res, loop, frame, sink, fs,
                   merge, exit_code, unit>>

\* main step 0: check_ffmpeg(), sys.exit(1) when shutil.which finds no ffmpeg
check_ffmpeg ==
    /\ pc = "check_ffmpeg"
    /\ IF env.ffmpeg
       THEN pc' = "validate" /\ UNCHANGED <<stdout, exit_code>>
       ELSE pc' = "exited" /\ exit_code' = 1 /\ Say(<<"ffmpeg missing">>)
    /\ UNCHANGED <<args, env, loaded, segments, video, res, loop, frame, sink, fs,
                   merge, unit>>

\* main steps 1 to 3: the input must exist; a headless run of a video input
\* switches the live window off
validate ==
    /\ pc = "validate"
    /\ IF ~env.input_exists
       THEN /\ pc' = "exited" /\ exit_code' = 1 /\ Say(<<"input not found">>)
            /\ UNCHANGED args
       ELSE /\ pc' = "load_model"
            /\ UNCHANGED <<stdout, exit_code>>
            /\ args' = IF ~is_audio_only(args.input_file) /\ env.headless
                       THEN [args EXCEPT !.no_show = TRUE]
                       ELSE args
    /\ UNCHANGED <<env, loaded, segments, video, res, loop, frame, sink, fs, merge, unit>>

\* main step 4: whisper.load_model
load_model ==
    /\ pc = "load_model"
    /\ loaded' = "model"
    /\ pc' = "transcribe"
    /\ UNCHANGED <<args, env, segments, video, res, loop, frame, sink, fs, stdout,
                   merge, exit_code, unit>>

\* main step 5: model.transcribe returns the segments
transcribe ==
    /\ pc = "transcribe"
    /\ \E segs \in MainSegLists : segments' = segs
    /\ loaded' = "transcribed"
    /\ pc' = "select_output"
    /\ UNCHANGED <<args, env, video, res, loop, frame, sink, fs, stdout, merge,
                   exit_code, unit>>

Exists(files, path) == \E i \in 1..Len(files) : files[i].path = path
WriteFile(files, path, kind, content) ==
    LET file == [path |-> path, kind |-> kind, content |-> content]
    IN  IF Exists(files, path)
        THEN [i \in 1..Len(files) |-> IF files[i].path = path THEN file ELSE files[i]]
        ELSE Append(files, file)
RemoveFile(files, path) == SelectSeq(files, LAMBDA e : e.path # path)

\* write_raw_tokens: the start of every segment and its text, between the
\* transcript markers (the markers and the %.2f rendering are not spelled out)
raw_tokens(segs) == [i \in 1..Len(segs) |-> <<segs[i].start, segs[i].text>>]

\* main step 6, text outputs: an .srt or .txt output path
write_text_output ==
    /\ pc = "select_output"
    /\ get_output_format(args.output) \in {"srt", "txt"}
    /\ IF get_output_format(args.output) = "srt"
       THEN /\ fs' = WriteFile(fs, args.output, "srt", write_srt(segments))
            /\ Say(<<"Subtitles saved", "Done.">>)
       ELSE /\ fs' = WriteFile(fs, args.output, "raw_tokens", raw_tokens(segments))
            /\ Say(<<"Raw tokens saved", "Done.">>)
    /\ pc' = "exited" /\ exit_code' = 0
    /\ UNCHANGED <<args, env, loaded, segments, video, res, loop, frame, sink, merge, unit>>

\* the path of the subtitles of an audio-only input
audio_srt_path ==
    IF args.output # <<>>
    THEN IF endswith(lower(args.output), Ext_srt) THEN args.output
         ELSE splitext(args.output)[1] \o Ext_srt
    ELSE splitext(args.input_file)[1] \o Ext_srt

\* main step 6, audio-only input: subtitles, whatever the output path says
write_audio_srt ==
    /\ pc = "select_output"
    /\ get_output_format(args.output) \notin {"srt", "txt"}
    /\ is_audio_only(args.input_file)
    /\ fs' = WriteFile(fs, audio_srt_path, "srt", write_srt(segments))
    /\ Say(<<"Subtitles saved", "Done.">>)
    /\ pc' = "exited" /\ exit_code' = 0
    /\ UNCHANGED <<args, env, loaded, segments, video, res, loop, frame, sink, merge, unit>>

\* main step 7: process_video is called
start_video ==
    /\ pc = "select_output"
    /\ get_output_format(args.output) \notin {"srt", "txt"}
    /\ ~is_audio_only(args.input_file)
    /\ pc' = "pv_setup"
    /\ UNCHANGED <<args, env, loaded, segments, video, res, loop, frame, sink, fs,
                   stdout, merge, exit_code, unit>>

\* a faulty variant of the end of main: a failed remux becomes the exit status
finish_failing_on_remux_error ==
    /\ pc = "finish"
    /\ Say(<<"Done.">>)
    /\ pc' = "exited"
    /\ exit_code' = IF merge.outcome \in {"nonzero", "oserror"} THEN 1 ELSE 0
    /\ UNCHANGED <<args, env, loaded, segments, video, res, loop, frame, sink, fs,
                   merge, unit>>

\* process_video has returned: print("Done."), main returns
finish ==
    /\ pc = "finish"
    /\ Say(<<"Done.">>)
    /\ pc' = "exited" /\ exit_code' = 0
    /\ UNCHANGED <<args, env, loaded, segments, video, res, loop, frame, sink, fs,
                   merge, unit>>

----------------------------------------------------------------------------
(* video.py: process_video *)

TempPrefix == <<"t", "e", "m", "p", "_", "s", "i", "l", "e", "n", "t", "_">>

\* setup: the capture, the writer of the silent video when an output path
\* was given, the loop variables
pv_setup ==
    /\ pc = "pv_setup"
    /\ \E v \in Videos :
        LET temp == IF args.output # <<>> THEN TempPrefix \o basename(args.output)
                    ELSE <<>>
        IN  /\ video' = v
            /\ res' = [cap |-> "open",
                       out |-> IF args.output # <<>> THEN "open" ELSE "none",
                       window |-> "none"]
            /\ fs' = IF args.output # <<>> /\ v.writer_ok
                     THEN WriteFile(fs, temp, "silent_video", <<>>)
                     ELSE fs
            /\ loop' = [frame_idx |-> 0, pulled |-> 0, total_frames |-> v.total,
                        ended |-> "", temp |-> temp, progress |-> <<>>]
    /\ Say((IF args.output # <<>> THEN <<"Processing video frames">> ELSE <<>>)
           \o <<"Starting playback/processing">>
           \o (IF ~args.no_show THEN <<"Press 'q' to quit">> ELSE <<>>))
    /\ pc' = "pv_loop"
    /\ UNCHANGED <<args, env, loaded, segments, frame, sink, merge, exit_code, unit>>

\* the loop ends: the capture is not open, or cap.read() delivers no frame
pv_exhausted ==
    /\ pc = "pv_loop"
    /\ ~video.opened \/ loop.pulled >= video.nframes
    /\ loop' = [loop EXCEPT !.ended = "exhausted"]
    /\ pc' = "pv_cleanup"
    /\ UNCHANGED <<args, env, loaded, segments, video, res, frame, sink, fs, stdout,
                   merge, exit_code, unit>>

\* a faulty variant of the frame counter: it advances by two
next_frame_idx_skip(i) == i + 2

\* frame_idx += 1
next_frame_idx(i) == i + 1

\* "Processing: {int((frame_idx/total_frames)*100)}%"
progress_percent(i, total) == IntTrunc(i * 100, total)

\* one iteration of the loop over a frame the capture delivered
pv_frame ==
    /\ pc = "pv_loop"
    /\ video.opened /\ loop.pulled < video.nframes
    /\ LET src   == UniformFrame(video.w, video.h, "grey")
           ts    == T(loop.frame_idx, video.fps)
           text  == active_text(segments, ts)
           fr    == overlay(src, text)
           entry == [k |-> loop.pulled, idx |-> loop.frame_idx, text |-> text,
                     drawn |-> fr # src, written |-> res.out = "open",
                     shown |-> ~args.no_show]
           going == [loop EXCEPT !.pulled = @ + 1,
                                 !.frame_idx = next_frame_idx(@)]
       IN  /\ frame' = fr
           /\ sink' = Append(sink, entry)
           /\ IF ~args.no_show
              THEN \* cv2.imshow, then cv2.waitKey: 'q' leaves the loop
                   /\ res' = [res EXCEPT !.window = "open"]
                   /\ UNCHANGED <<stdout, exit_code>>
                   /\ \E quit \in BOOLEAN :
                        IF quit
                        THEN /\ loop' = [loop EXCEPT !.pulled = @ + 1, !.ended = "quit"]
                             /\ pc' = "pv_cleanup"
                        ELSE /\ loop' = going
                             /\ pc' = "pv_loop"
              ELSE \* the progress log of every 60th frame
                   /\ UNCHANGED res
                   /\ IF loop.frame_idx % 60 = 0 /\ loop.total_frames = 0
                      THEN \* ZeroDivisionError leaves process_video and main
                           /\ loop' = [loop EXCEPT !.pulled = @ + 1, !.ended = "error"]
                           /\ Say(<<"Traceback">>)
                           /\ pc' = "exited" /\ exit_code' = 1
                      ELSE /\ loop' = IF loop.frame_idx % 60 = 0
                                      THEN [going EXCEPT !.progress = Append(@,
                                              <<loop.frame_idx,
                                                progress_percent(loop.frame_idx,
                                                                 loop.total_frames)>>)]
                                      ELSE going
                           /\ pc' = "pv_loop"
                           /\ UNCHANGED <<stdout, exit_code>>
    /\ UNCHANGED <<args, env, loaded, segments, video, fs, merge, unit>>

\* a faulty variant of the cleanup: the silent video is handed over without
\* the test that it exists
pv_cleanup_without_exists_test ==
    /\ pc = "pv_cleanup"
    /\ res' = [cap |-> "released",
               out |-> IF res.out = "open" THEN "released" ELSE res.out,
               window |-> IF ~args.no_show THEN "released" ELSE res.window]
    /\ Say(<<"Visual processing complete.">>)
    /\ pc' = IF args.output # <<>> /\ loop.temp # <<>> THEN "merge" ELSE "finish"
    /\ UNCHANGED <<args, env, loaded, segments, video, loop, frame, sink, fs, merge,
                   exit_code, unit>>

\* after the loop: release, then hand the silent video to the remux when it exists
pv_cleanup ==
    /\ pc = "pv_cleanup"
    /\ res' = [cap |-> "released",
               out |-> IF res.out = "open" THEN "released" ELSE res.out,
               window |-> IF ~args.no_show THEN "released" ELSE res.window]
    /\ Say(<<"Visual processing complete.">>)
    /\ pc' = IF args.output # <<>> /\ loop.temp # <<>> /\ Exists(fs, loop.temp)
             THEN "merge" ELSE "finish"
    /\ UNCHANGED <<args, env, loaded, segments, video, loop, frame, sink, fs, merge,
                   exit_code, unit>>

----------------------------------------------------------------------------
(* video.py: _merge_audio *)

WrittenFrames == SelectSeq(sink, LAMBDA e : e.written)

\* ffmpeg is run on the silent video and the input; the silent video is
\* removed after ffmpeg succeeded
merge_audio ==
    /\ pc = "merge"
    /\ \E o \in MergeOutcomes :
        /\ merge' = [calls |-> merge.calls + 1, outcome |-> o,
                     codec |-> IF args.compress THEN "libx264" ELSE "copy"]
        /\ CASE o = "ok" ->
                 /\ fs' = RemoveFile(WriteFile(fs, args.output, "video", WrittenFrames),
                                     loop.temp)
                 /\ Say(<<"Merging", "Success!">>)
                 /\ pc' = "finish" /\ UNCHANGED exit_code
             [] o = "remove_fails" ->
                 \* os.remove raises: except Exception
                 /\ fs' = WriteFile(fs, args.output, "video", WrittenFrames)
                 /\ Say(<<"Merging", "Success!", "An unexpected error occurred">>)
                 /\ pc' = "finish" /\ UNCHANGED exit_code
             [] o = "nonzero" ->
                 \* except subprocess.CalledProcessError
                 /\ fs' = fs
                 /\ Say(<<"Merging", "Error merging audio with ffmpeg.", "FFmpeg stderr",
                          "The silent video is still available">>)
                 /\ pc' = "finish" /\ UNCHANGED exit_code
             [] o = "nonzero_undecodable" ->
                 \* e.stderr.decode() raises UnicodeDecodeError inside the
                 \* handler: nothing catches it
                 /\ fs' = fs
                 /\ Say(<<"Merging", "Error merging audio with ffmpeg.", "Traceback">>)
                 /\ pc' = "exited" /\ exit_code' = 1
             [] o = "oserror" ->
                 \* subprocess.run raises: except Exception
                 /\ fs' = fs
                 /\ Say(<<"Merging", "An unexpected error occurred">>)
                 /\ pc' = "finish" /\ UNCHANGED exit_code
    /\ UNCHANGED <<args, env, loaded, segments, video, res, loop, frame, sink, unit>>

----------------------------------------------------------------------------
(* Specifications *)

NextMain ==
    \/ check_ffmpeg
    \/ validate
    \/ load_model
    \/ transcribe
    \/ write_text_output
    \/ write_audio_srt
    \/ start_video
    \/ pv_setup
    \/ pv_exhausted
    \/ pv_frame
    \/ pv_cleanup
    \/ merge_audio
    \/ finish

\* a run of the program
Spec == InitMain /\ [][NextMain]_vars

InitUnit ==
    /\ pc = "unit"
    /\ args = [input_file |-> <<>>, output |-> <<>>, no_show |-> FALSE, compress |-> FALSE]
    /\ env = [ffmpeg |-> TRUE, input_exists |-> TRUE, headless |-> FALSE]
    /\ loaded = "none"
    /\ segments = <<>>
    /\ video = NoVideo
    /\ res = [cap |-> "none", out |-> "none", window |-> "none"]
    /\ loop = [frame_idx |-> 0, pulled |-> 0, total_frames |-> 0, ended |-> "",
               temp |-> <<>>, progress |-> <<>>]
    /\ frame = <<>>
    /\ sink = <<>>
    /\ fs = <<>>
    /\ stdout = <<>>
    /\ merge = [calls |-> 0, codec |-> "", outcome |-> ""]
    /\ exit_code = -1
    /\ UnitInputs

NextUnit ==
    \/ FormatCall
    \/ ResolveCall
    \/ WriteSrtCall
    \/ ParseSrtCall
    \/ DrawCall
    \/ OverlayCall

\* one call of one function on one input
SpecUnit == InitUnit /\ [][NextUnit]_vars

----------------------------------------------------------------------------
(* What the properties are stated with *)

SetMin(S) == CHOOSE m \in S : \A x \in S : m <= x
SetMax(S) == CHOOSE m \in S : \A x \in S : m >= x

\* s from its first to its last character that is not white space
Trimmed(s) ==
    LET keep == {i \in 1..Len(s) : ~IsSpace(s[i])}
    IN  IF keep = {} THEN <<>> ELSE SubSeq(s, SetMin(keep), SetMax(keep))

IsDigit(c) == c \in {"0", "1", "2", "3", "4", "5", "6", "7", "8", "9"}
DigitVal(c) == CHOOSE d \in 0..9 : DigitChar(d) = c

RECURSIVE Value(_)
Value(s) == IF s = <<>> THEN 0 ELSE 10 * Value(SubSeq(s, 1, Len(s) - 1)) + DigitVal(s[Len(s)])

AllDigits(s) == \A i \in 1..Len(s) : IsDigit(s[i])

----------------------------------------------------------------------------
(* C1 *)

\* the segments of segs whose closed interval holds the time ts.n / ts.d
Holding(segs, ts) ==
    {i \in 1..Len(segs) :
        segs[i].start * ts.d <= ts.n * Scale /\ ts.n * Scale <= segs[i].end * ts.d}

\* C1: the scan returns the trimmed text of the lowest-indexed segment whose
\* closed interval [start, end] holds the timestamp, and the empty text when
\* no segment holds it; for [{0,2,"A"},{2,4,"B"}] the text at 2.0 is "A".
C1_FirstContainingSegment ==
    (unit.op = "resolve" /\ unit.step = 1) =>
        /\ LET hits == Holding(unit.segs, unit.ts)
           IN  unit.out = IF hits = {} THEN <<>>
                          ELSE Trimmed(unit.segs[SetMin(hits)].text)
        /\ (unit.segs = SegsBoundary /\ unit.ts = T(2, 1)) => unit.out = <<"A">>

\* the scan has run on the two segments sharing the boundary 2.0, at 2.0
C1_Witness ==
    /\ unit.op = "resolve" /\ unit.step = 1
    /\ unit.segs = SegsBoundary /\ unit.ts = T(2, 1)
    /\ Cardinality(Holding(unit.segs, unit.ts)) = 2
    /\ unit.out = <<"A">>

----------------------------------------------------------------------------
(* C3 *)

RECURSIVE ExpectedSrt(_)
ExpectedSrt(segs) ==
    IF segs = <<>> THEN <<>>
    ELSE LET n == Len(segs)
             last == segs[n]
         IN  ExpectedSrt(SubSeq(segs, 1, n - 1))
             \o Decimal(n) \o <<"\n">>
             \o format_timestamp_srt(last.start) \o <<" ", "-", "-", ">", " ">>
             \o format_timestamp_srt(last.end) \o <<"\n">>
             \o Trimmed(last.text) \o <<"\n", "\n">>

HiThereSrt ==
    <<"1", "\n", "0", "0", ":", "0", "0", ":", "0", "0", ",", "0", "0", "0",
      " ", "-", "-", ">", " ", "0", "0", ":", "0", "0", ":", "0", "1", ",", "5", "0", "0",
      "\n", "H", "i", " ", "t", "h", "e", "r", "e", "\n", "\n">>

\* C3: write_srt writes, for every segment in input order, its 1-based
\* position, "<format(start)> --> <format(end)>", the trimmed text and a blank
\* line; for {0.0, 1.5, " Hi there "} the file is
\* "1\n00:00:00,000 --> 00:00:01,500\nHi there\n\n".
C3_SrtRecords ==
    (unit.op = "srt" /\ unit.step >= 1) =>
        /\ unit.out = ExpectedSrt(unit.segs)
        /\ unit.segs = SegsHi => unit.out = HiThereSrt

\* write_srt has written the single segment {0.0, 1.5, " Hi there "}
C3_Witness ==
    /\ unit.op = "srt" /\ unit.step >= 1
    /\ unit.segs = SegsHi
    /\ unit.out = HiThereSrt

----------------------------------------------------------------------------
(* C4 *)

\* C4: for s >= 0 format_timestamp_srt(s) is HH:MM:SS,mmm with hours
\* floor(s/3600) in at least two digits (wider above 99, never wrapped),
\* minutes and seconds in two digits, and the milliseconds truncated, never
\* rounded, in three digits; 3661.25 gives "01:01:01,250" and 0.9995 gives
\* "00:00:00,999".
C4_TimestampFormat ==
    (unit.op = "format" /\ unit.step = 1 /\ unit.ticks >= 0) =>
        LET o  == unit.out
            n  == Len(o)
            hh == SubSeq(o, 1, n - 10)
            mm == SubSeq(o, n - 8, n - 7)
            ss == SubSeq(o, n - 5, n - 4)
            ms == SubSeq(o, n - 2, n)
            whole == unit.ticks \div Scale
        IN  /\ n >= 12
            /\ o[n - 9] = ":" /\ o[n - 6] = ":" /\ o[n - 3] = ","
            /\ AllDigits(hh) /\ AllDigits(mm) /\ AllDigits(ss) /\ AllDigits(ms)
            /\ Len(hh) > 2 => hh[1] # "0"
            /\ Value(hh) = whole \div 3600
            /\ Value(mm) = (whole \div 60) % 60
            /\ Value(ss) = whole % 60
            /\ Value(ms) * Scale <= (unit.ticks % Scale) * 1000
            /\ (unit.ticks % Scale) * 1000 < (Value(ms) + 1) * Scale
            /\ unit.ticks = 3661 * Scale + Scale \div 4 =>
                   o = <<"0", "1", ":", "0", "1", ":", "0", "1", ",", "2", "5", "0">>
            /\ unit.ticks = Scale - 1 =>
                   o = <<"0", "0", ":", "0", "0", ":", "0", "0", ",", "9", "9", "9">>
            /\ unit.ticks = 360000 * Scale =>
                   o = <<"1", "0", "0", ":", "0", "0", ":", "0", "0", ",", "0", "0", "0">>

\* 0.9995 s, half a millisecond short of one second, has been formatted
C4_Witness ==
    /\ unit.op = "format" /\ unit.step = 1
    /\ unit.ticks = Scale - 1
    /\ unit.out = <<"0", "0", ":", "0", "0", ":", "0", "0", ",", "9", "9", "9">>

----------------------------------------------------------------------------
(* C5 *)

\* C5: writing N segments with write_srt and reading the text back record by
\* record gives N records, the i-th with the index i, the formatted start and
\* end of the i-th segment and its trimmed text.
C5_RoundTrip ==
    (unit.op = "srt" /\ unit.step = 2) =>
        /\ Len(unit.records) = Len(unit.segs)
        /\ \A i \in 1..Len(unit.segs) :
            /\ unit.records[i].index = Decimal(i)
            /\ unit.records[i].times =
                   format_timestamp_srt(unit.segs[i].start) \o <<" ", "-", "-", ">", " ">>
                   \o format_timestamp_srt(unit.segs[i].end)
            /\ unit.records[i].text = Trimmed(unit.segs[i].text)


\* a text with an empty line in it
HasBlankLine(t) == \E i \in 1..(Len(t) - 1) : t[i] = "\n" /\ t[i + 1] = "\n"

\* C5, amended: when no segment's trimmed text holds an empty line, writing N
\* segments with write_srt and reading the text back record by record gives N
\* records, the i-th with the index i, the formatted start and end of the i-th
\* segment and its trimmed text.
C5_RoundTripWithoutBlankLines ==
    (\A i \in 1..Len(unit.segs) : ~HasBlankLine(Trimmed(unit.segs[i].text)))
        => C5_RoundTrip

\* two segments, the first with a text of two lines, written and read back
C5_Witness ==
    /\ unit.op = "srt" /\ unit.step = 2
    /\ unit.segs = SegsTwoLines
    /\ Len(unit.records) = 2
    /\ unit.records[1].text = <<"a", "\n", "b">>
    /\ unit.records[2].index = <<"2">>

----------------------------------------------------------------------------
(* C6 *)

\* C6: draw_subtitle(frame, "") returns a frame identical, pixel for pixel, to
\* its input.
C6_DrawEmptyIsNoop ==
    (unit.op = "draw" /\ unit.step = 1 /\ unit.text = <<>>) => unit.out = unit.f

\* the background box draw_subtitle paints for the empty text: the width of
\* no glyph is the stroke thickness
InEmptyTextBox(f, p) ==
    LET x == (f.w - thickness) \div 2
        y == f.h - BottomMargin
    IN  /\ x - BoxPad <= p[1] /\ p[1] <= x + thickness + BoxPad
        /\ y - text_h - BoxPad <= p[2] /\ p[2] <= y + baseline + BoxPad

\* C6, amended: the frame loop leaves a frame with no active text as it is,
\* because it calls draw_subtitle for a non-empty text only; draw_subtitle
\* itself, given the empty text, draws no glyph but still fills its background
\* box, thickness + 2 * 10 pixels wide, with black.
C6_EmptyTextSkippedByCaller ==
    /\ (unit.op = "overlay" /\ unit.step = 1 /\ unit.text = <<>>) => unit.out = unit.f
    /\ (unit.op = "draw" /\ unit.step = 1 /\ unit.text = <<>>) =>
           /\ unit.out.w = unit.f.w /\ unit.out.h = unit.f.h
           /\ \A p \in DOMAIN unit.f.px :
                unit.out.px[p] = IF InEmptyTextBox(unit.f, p) THEN "black"
                                 ELSE unit.f.px[p]

\* the overlay step of the frame loop has passed with the empty text, over a
\* grey frame that the background box of draw_subtitle would have marked
C6_Witness ==
    /\ unit.op = "overlay" /\ unit.step = 1 /\ unit.text = <<>>
    /\ unit.out = unit.f
    /\ \E p \in DOMAIN unit.f.px : InEmptyTextBox(unit.f, p) /\ unit.f.px[p] = "grey"


----------------------------------------------------------------------------
(* C2 *)

\* C2: the k-th frame pulled (k from 0) is resolved at k / fps, frame_idx
\* being the number of frames processed before it, and it is overlaid exactly
\* when the resolved text is not empty; with [{1.0,3.0,"Hello"}] at 30 fps
\* frames 0-29 carry no overlay and frames 30-89 carry "Hello".
C2_FrameTimestamps ==
    \A j \in 1..Len(sink) :
        LET e    == sink[j]
            hits == Holding(segments, T(j - 1, video.fps))
        IN  /\ e.k = j - 1
            /\ e.idx = j - 1
            /\ e.text = IF hits = {} THEN <<>> ELSE Trimmed(segments[SetMin(hits)].text)
            /\ e.drawn <=> e.text # <<>>
            /\ (segments = SegsHello /\ video.fps = 30) =>
                   /\ j - 1 < 30 => ~e.drawn
                   /\ (30 <= j - 1 /\ j - 1 <= 90) => (e.drawn /\ e.text = TextHello)

\* the 3 s clip has been processed to its last frame: frame 29 is the last
\* without overlay, frame 30 the first with it
C2_Witness ==
    /\ segments = SegsHello /\ video = ClipVideo
    /\ Len(sink) = ClipFrames
    /\ ~sink[30].drawn /\ sink[31].drawn /\ sink[31].idx = 30
    /\ sink[ClipFrames].drawn

----------------------------------------------------------------------------
(* C7 *)

FilesOfKind(kind) == {i \in 1..Len(fs) : fs[i].kind = kind}

\* main has chosen what to produce
Decided == loaded = "transcribed" /\ pc # "select_output"

VideoPath == pc \in {"pv_setup", "pv_loop", "pv_cleanup", "merge", "finish"} \/ res.cap # "none"

OnlyTextFileAt(kind, path) ==
    /\ Len(fs) = 1 /\ fs[1].kind = kind /\ fs[1].path = path
    /\ ~VideoPath

EndsInSrt(path) == endswith(lower(path), <<".", "s", "r", "t">>)

\* the video pipeline runs on the requested path; a remux that succeeds
\* leaves the muxed video there
VideoSelected ==
    /\ VideoPath
    /\ FilesOfKind("srt") = {} /\ FilesOfKind("raw_tokens") = {}
    /\ (merge.outcome \in {"ok", "remove_fails"}) =>
           \E i \in FilesOfKind("video") : fs[i].path = args.output

ExtOf(path) == lower(splitext(path)[2])

----------------------------------------------------------------------------
(* C8 *)

\* C8: when ffmpeg is not on PATH or the input file does not exist, main
\* exits with a non-zero status before the model is loaded, before the
\* transcription and before any output or temporary file is created.
C8_PreconditionsFatal ==
    /\ ~env.ffmpeg => pc \in {"check_ffmpeg", "exited"}
    /\ (~env.ffmpeg \/ ~env.input_exists) =>
           /\ pc \in {"check_ffmpeg", "validate", "exited"}
           /\ loaded = "none" /\ segments = <<>>
           /\ fs = <<>> /\ res.cap = "none" /\ res.out = "none"
           /\ pc = "exited" => exit_code = 1

\* ffmpeg is there, the input is not: main has exited with status 1
C8_Witness ==
    /\ env.ffmpeg /\ ~env.input_exists
    /\ pc = "exited" /\ exit_code = 1
    /\ loaded = "none" /\ fs = <<>>

----------------------------------------------------------------------------
(* C9, C10 *)

RemuxFailed == merge.outcome \in {"nonzero", "nonzero_undecodable"}
Said(msg) == \E i \in 1..Len(stdout) : stdout[i] = msg

\* C9: when ffmpeg returns a non-zero status the temporary silent video is
\* not deleted and its path is reported, no exception escapes, and the run
\* reaches its final "Done."; the temporary file is removed only after a
\* successful remux.
C9_RemuxFailureRecovered ==
    /\ RemuxFailed =>
           /\ Exists(fs, loop.temp)
           /\ Said("The silent video is still available")
           /\ ~Said("Traceback")
           /\ pc = "exited" => (Said("Done.") /\ exit_code = 0)
    /\ (merge.calls > 0 /\ ~Exists(fs, loop.temp)) => merge.outcome = "ok"

\* C10: when ffmpeg exits non-zero the program ends with a non-zero exit code.
C10_RemuxFailureExitsNonZero ==
    (RemuxFailed /\ pc = "exited") => exit_code # 0

\* C10, amended: a non-zero exit of ffmpeg does not reach the exit status.
\* _merge_audio handles the error, main prints "Done." and returns: the exit
\* status is 0.  The status is non-zero only when the handler itself fails
\* (the stderr of ffmpeg does not decode), and then "Done." is not printed.
C10_RemuxFailureExitsZero ==
    (RemuxFailed /\ pc = "exited") =>
        IF merge.outcome = "nonzero"
        THEN exit_code = 0 /\ Said("Done.")
        ELSE exit_code = 1 /\ ~Said("Done.")

\* ffmpeg has failed with a readable stderr and the run has ended
C10_Witness ==
    /\ merge.outcome = "nonzero" /\ pc = "exited"
    /\ exit_code = 0 /\ Said("Done.")
    /\ Exists(fs, loop.temp)

----------------------------------------------------------------------------
(* C11, C12 *)

\* process_video has been entered and left: by its return or by an exception
LeftProcessVideo == res.cap # "none" /\ pc \in {"merge", "finish", "exited"}

\* C11: the capture, the writer when one was opened and the window when the
\* frames are shown are released on every way out of process_video: after
\* the source is exhausted, after a quit, and after an error raised while a
\* frame is processed.
C11_ReleasedOnEveryExit ==
    LeftProcessVideo =>
        /\ res.cap = "released"
        /\ res.out # "open"
        /\ res.window # "open"

\* C12: the frame loop ends only by exhaustion of the source or by the quit
\* key, the quit key only while frames are shown; with no_show every frame
\* of the source is processed; every frame pulled has been written and shown
\* before the key is polled, and no frame is pulled after a quit.
C12_LoopEndsByExhaustionOrQuit ==
    /\ loop.ended \in {"", "exhausted", "quit"}
    /\ loop.ended = "quit" => ~args.no_show /\ Len(sink) >= 1
    /\ (args.no_show /\ video.opened /\ LeftProcessVideo) => Len(sink) = video.nframes
    /\ Len(sink) = loop.pulled
    /\ \A i \in 1..Len(sink) :
           /\ sink[i].k = i - 1
           /\ sink[i].written = (res.out # "none")
           /\ sink[i].shown = ~args.no_show
    /\ loop.ended # "" => pc # "pv_loop"

----------------------------------------------------------------------------
(* C13 *)

\* the call of format_timestamp_srt on negative seconds has been made
NegativeFormatted == unit.op = "format" /\ unit.step = 1 /\ unit.ticks < 0

\* the fields Python's floor division and truncation give for -a ticks, a > 0
NegHours(a)   == 0 - ((a + 3600 * Scale - 1) \div (3600 * Scale))
NegRest(a, m) == (m - (a % m)) % m
NegMillis(a)  == 0 - (((a % Scale) * 1000) \div Scale)

\* C13: negative input to format_timestamp_srt is rejected: for seconds < 0
\* the formatter returns no timestamp string, and it never clamps the value
\* to a non-negative one.
C13_NegativeRejected ==
    NegativeFormatted =>
        /\ unit.out = <<>>
        /\ \A t \in 0..Scale : unit.out # format_timestamp_srt(t)

\* C13, amended: negative input is not validated.  format_timestamp_srt
\* returns a string for it, built from the floor of the hours, minutes and
\* seconds and from the truncated milliseconds: the hours field is negative
\* ("-1" for the first hour before 0), minutes and seconds count up from the
\* hour below, the milliseconds carry their own sign.  The string is no
\* HH:MM:SS,mmm timestamp and is not the string of the clamped or of the
\* absolute value.
C13_NegativeFormatsMalformed ==
    NegativeFormatted =>
        LET a == 0 - unit.ticks
        IN  /\ unit.out = FormatD(NegHours(a), 2) \o <<":">>
                          \o FormatD(NegRest(a, 3600 * Scale) \div (60 * Scale), 2)
                          \o <<":">>
                          \o FormatD(NegRest(a, 60 * Scale) \div Scale, 2) \o <<",">>
                          \o FormatD(NegMillis(a), 3)
            /\ unit.out[1] = "-"
            /\ unit.out # format_timestamp_srt(0)
            /\ unit.out # format_timestamp_srt(a)

\* -1.5 seconds have been formatted as "-1:59:58,-500"
C13_Witness ==
    /\ NegativeFormatted
    /\ unit.ticks = 0 - (Scale + Half)
    /\ unit.out = <<"-", "1", ":", "5", "9", ":", "5", "8", ",", "-", "5", "0", "0">>

----------------------------------------------------------------------------
(* C14 *)

\* the silent video is with the remux step, or has been
HandedToRemux == pc = "merge" \/ merge.calls > 0

\* the handover follows the end of the loop and the release of the capture
\* and of the writer
HandoverAfterRelease ==
    HandedToRemux =>
        /\ args.output # <<>>
        /\ loop.ended \in {"exhausted", "quit"}
        /\ res.cap = "released" /\ res.out = "released"

\* C14: whenever an output path was given to process_video, the silent video
\* is handed to the remux exactly once, after the loop has ended and the
\* capture and the writer are released, be the loop ended by exhaustion or
\* by a quit.
C14_RemuxWheneverFileSink ==
    /\ merge.calls <= 1
    /\ HandoverAfterRelease
    /\ (LeftProcessVideo /\ pc # "merge" /\ args.output # <<>>) => merge.calls = 1

\* C14, amended: the silent video is handed to the remux exactly once when an
\* output path was given, the loop ended by exhaustion or by a quit, and the
\* file of the silent video exists once the writer is released; the handover
\* follows the release of the capture and of the writer.  When the writer
\* has made no file, and when an error ended the loop, there is no handover.
C14_RemuxWhenSilentVideoExists ==
    /\ merge.calls <= 1
    /\ HandoverAfterRelease
    /\ pc = "merge" => Exists(fs, loop.temp)
    /\ (LeftProcessVideo /\ pc # "merge") =>
           merge.calls = IF /\ args.output # <<>>
                            /\ video.writer_ok
                            /\ loop.ended \in {"exhausted", "quit"}
                         THEN 1 ELSE 0

\* a quit has ended the loop, the silent video was remuxed once and the run
\* has ended
C14_Witness ==
    /\ pc = "exited" /\ exit_code = 0
    /\ loop.ended = "quit" /\ Len(sink) >= 1
    /\ merge.calls = 1 /\ merge.outcome = "ok"
    /\ res.cap = "released" /\ res.out = "released"

----------------------------------------------------------------------------
(* C15 *)

\* the frames pulled so far whose index is a multiple of 60
ProgressDue == SelectSeq(sink, LAMBDA e : e.idx % 60 = 0)

\* C15: with no_show, progress is reported exactly at the frames whose index
\* is a multiple of 60, from frame 0 on, as the integer percentage of
\* index / total_frames, and the report completes without error for every
\* frame pulled, whatever frame count the source reported; while frames are
\* shown, no progress is reported.
C15_ProgressEvery60 ==
    /\ ~args.no_show => loop.progress = <<>>
    /\ args.no_show =>
           /\ Len(loop.progress) = Len(ProgressDue)
           /\ \A i \in 1..Len(loop.progress) :
                  /\ loop.progress[i][1] = ProgressDue[i].idx
                  /\ loop.total_frames # 0
                  /\ loop.progress[i][2] =
                         (loop.progress[i][1] * 100) \div loop.total_frames
    /\ loop.ended # "error"

====
